---- MODULE Spec2Model ----
(***************************************************************************)
(* Model of the admin listener's connection-admission stack                *)
(* (linkerd/app/admin/src/stack.rs) and of the label formatting and report *)
(* chaining of linkerd/app/core/src/metrics/mod.rs.                        *)
(***************************************************************************)
EXTENDS Integers, Sequences, FiniteSets, TLC

(***************************************************************************)
(* Bounds of the model.                                                    *)
(***************************************************************************)
\* Number of connections the listener yields.
NumConns == 2

\* Largest number of entries of a policy label map.
MaxLabels == 2

\* Largest number of metric lines recorded over all categories, and largest
\* number of lines of a report that is merged.
MaxLines == 3

\* const DETECT_TIMEOUT: Duration = Duration::from_secs(1), in seconds.
DETECT_TIMEOUT == 1

Conns == 1..NumConns

\* Server names a ClientHello may carry for a target other than this proxy.
Snis == {"sni_a", "sni_b"}

\* http::Version
Versions == {"Http1", "H2"}

\* Kinds of error the admin service may return to the response mapping.
HandlerErrors == {"io", "internal"}

VARIABLES
    debug_assertions,   \* build configuration: cfg(debug_assertions)
    identity,           \* Config::build's identity: Option<LocalCrtKey> is Some
    drain,              \* the drain::Watch has been signaled
    ready,              \* the readiness latch has been released
    serve,              \* state of Task.serve: "running" or "done"
    conn,               \* per-connection task state
    req,                \* the request the HTTP server served last
    labels,             \* an InboundEndpointLabels value
    rendered,           \* what fmt_labels wrote for it
    blocks,             \* lines each metrics category holds
    text,               \* what the process-wide report wrote last
    abc,                \* three reports to merge
    grouped             \* their merges under both groupings

pipeVars == <<debug_assertions, identity, drain, ready, serve, conn, req>>
labelVars == <<labels, rendered>>
reportVars == <<blocks, text, abc, grouped>>

(***************************************************************************)
(* Values                                                                  *)
(***************************************************************************)
\* tls::ConditionalServerTls
TlsNone == [kind |-> "None"]
TlsEstablished == [kind |-> "Established"]
TlsPassthru(sni) == [kind |-> "Passthru", sni |-> sni]
TlsStates == {TlsNone, TlsEstablished} \cup {TlsPassthru(s) : s \in Snis}

\* The listener's Local<ServerAddr> and each connection's Remote<ClientAddr>.
ListenAddr == "admin"
Addrs(c) == [client |-> <<"client", c>>, local |-> ListenAddr]

NoTcp == [kind |-> "NoTcp"]
\* struct Tcp, as built by push_map_target
MapTarget(tls, addrs) ==
    [kind |-> "Tcp", tls |-> tls, client |-> addrs.client, addr |-> addrs.local]

\* Result<Option<http::Version>, detect::DetectTimeoutError<_>>
Pending == [kind |-> "Pending"]
Detected(v) == [kind |-> "Some", version |-> v]
Ambiguous == [kind |-> "None"]
TimedOut == [kind |-> "Timeout"]
DetectResults == {Detected(v) : v \in Versions} \cup {Ambiguous, TimedOut}

\* Outcomes of the request filter.
NoResult == [kind |-> "NoResult"]
\* An Http target whose Tcp lost the TLS state the classifier produced.
HttpWithoutTls(version, tcp) ==
    [kind |-> "Http", version |-> version, tcp |-> [tcp EXCEPT !.tls = TlsNone]]

Http(version, tcp) == [kind |-> "Http", version |-> version, tcp |-> tcp]
NonHttpClient(client) == [kind |-> "NonHttpClient", client |-> client]
UnexpectedSni(sni, client) == [kind |-> "UnexpectedSni", sni |-> sni, client |-> client]
Panic == [kind |-> "Panic"]

\* Option<T>
None == [kind |-> "None"]
Some(x) == [kind |-> "Some", value |-> x]

\* Param<transport::labels::Key> for Tcp: the key of the transport metrics.
NoKey == [kind |-> "NoKey"]
TransportKey(tcp) ==
    [kind |-> "inbound_server", tls |-> tcp.tls, target_addr |-> tcp.addr,
     server |-> "default:admin"]

\* Param<metrics::EndpointLabels> for Http: the labels of the HTTP endpoint
\* metrics.
NoEndpoint == [kind |-> "NoEndpoint"]
HttpEndpointLabels(http) ==
    [kind |-> "Inbound", tls |-> http.tcp.tls, authority |-> None,
     target_addr |-> http.tcp.addr,
     policy |-> [server |-> "default:admin",
                 authz |-> "default:all-unauthenticated"]]

(***************************************************************************)
(* The request filter of push_request_filter: the fallback policy.         *)
(***************************************************************************)
\* The unexpected-SNI arm guessing a version like the other two arms.
TimeoutPassthruGuess(sni, tcp, dbg) == Http("H2", tcp)

\* debug_assert!(false, ..) followed by return Err(UnexpectedSni(..)): the
\* assertion is compiled in, and panics, only under cfg(debug_assertions).
TimeoutPassthru(sni, tcp, dbg) ==
    IF dbg THEN Panic ELSE UnexpectedSni(sni, tcp.client)

\* The educated guess with its two arms exchanged.
TimeoutVersionSwapped(tls) ==
    IF tls.kind = "None" THEN "H2" ELSE "Http1"

TimeoutVersion(tls) ==
    IF tls.kind = "None" THEN "Http1" ELSE "H2"

\* The filter treating a failed detection like a timed out one.
RequestFilterAmbiguousAsTimeout(http, tcp, dbg) ==
    CASE http.kind = "Some" -> Http(http.version, tcp)
      [] OTHER ->
            IF tcp.tls.kind = "Passthru"
            THEN UnexpectedSni(tcp.tls.sni, tcp.client)
            ELSE Http(TimeoutVersion(tcp.tls), tcp)

\* The filter refusing a connection whose detection timed out.
RequestFilterTimeoutAsAmbiguous(http, tcp, dbg) ==
    CASE http.kind = "Some" -> Http(http.version, tcp)
      [] OTHER ->
            IF tcp.tls.kind = "Passthru"
            THEN UnexpectedSni(tcp.tls.sni, tcp.client)
            ELSE NonHttpClient(tcp.client)

RequestFilter(http, tcp, dbg) ==
    CASE http.kind = "Some" -> Http(http.version, tcp)
      [] http.kind = "Timeout" ->
            IF tcp.tls.kind = "Passthru"
            THEN TimeoutPassthru(tcp.tls.sni, tcp, dbg)
            ELSE Http(TimeoutVersion(tcp.tls), tcp)
      [] http.kind = "None" ->
            IF tcp.tls.kind = "Passthru"
            THEN UnexpectedSni(tcp.tls.sni, tcp.client)
            ELSE NonHttpClient(tcp.client)

\* The filter's error ignored: the inner stack is built for every connection.
FilterNextAlwaysInner(result) == "serving"

\* push_request_filter: the inner stack is built only when the filter returns
\* Ok; an Err is returned to the caller and a panic unwinds the task.
FilterNext(result) ==
    CASE result.kind = "Http" -> "serving"
      [] result.kind = "Panic" -> "panicked"
      [] OTHER -> "refused"

(***************************************************************************)
(* The stack of Config::build, in the order the layers are pushed: each    *)
(* push wraps what was pushed before it, so the first entry is innermost.  *)
(***************************************************************************)
\* The endpoint metrics pushed after, and so outside, the response mapping.
StackMetricsOutside ==
    << "admin", "respond", "box_response", "http_endpoint_metrics", "serve_http",
       "request_filter", "box_new_service_http", "detect_http",
       "transport_metrics", "map_target", "box_new_service_tcp", "detect_tls" >>

Stack ==
    << "admin",                  \* svc::stack(move |_| admin.clone())
       "http_endpoint_metrics",  \* .push(metrics.proxy.http_endpoint.to_layer())
       "respond",                \* .push_on_service(.. errors::NewRespond::layer(..)
       "box_response",           \*                  .. http::BoxResponse::layer())
       "serve_http",             \* .push(http::NewServeHttp::layer(.., drain))
       "request_filter",         \* .push_request_filter(..)
       "box_new_service_http",   \* .push(svc::BoxNewService::layer())
       "detect_http",            \* .push(detect::NewDetectService::layer(..))
       "transport_metrics",      \* .push(transport::metrics::NewServer::layer(..))
       "map_target",             \* .push_map_target(..)
       "box_new_service_tcp",    \* .push(svc::BoxNewService::layer())
       "detect_tls" >>           \* .push(tls::NewDetectTls::layer(..))

Reverse(s) == [i \in 1..Len(s) |-> s[Len(s) + 1 - i]]

Range2(s) == {s[i] : i \in DOMAIN s}

\* The layers from the wire inward: the last one pushed is outermost.
WireInward == Reverse(Stack)

Pos(name) == CHOOSE i \in 1..Len(WireInward) : WireInward[i] = name

\* Layers a connection passes until HTTP detection awaits the client.
TlsSegment == SubSeq(WireInward, 1, Pos("detect_http") - 1)
\* Layers passed when HTTP detection completes; the filter's error stops there.
DetectSegment(result) ==
    SubSeq(WireInward, Pos("detect_http"),
           IF result.kind = "Http" THEN Pos("serve_http") ELSE Pos("request_filter"))
\* Layers a request passes inside the HTTP server.
RequestSegment == SubSeq(WireInward, Pos("serve_http") + 1, Len(WireInward))

\* The timeouts handed to the two detection layers.
TlsTimeout == DETECT_TIMEOUT
HttpDetectTimeout == DETECT_TIMEOUT

(***************************************************************************)
(* Responses: what each service layer does to the inner service's result   *)
(* on the way out.                                                         *)
(***************************************************************************)
Ok(rsp) == [kind |-> "Ok", rsp |-> rsp]
Err(e) == [kind |-> "Err", error |-> e]

\* A mapping that handles I/O errors only and passes the others through.
RescueIoOnly(error) ==
    IF error = "io" THEN [result |-> Ok("unexpected_error"), warned |-> 1]
    ELSE [result |-> Err(error), warned |-> 0]

\* |error: Error| { tracing::warn!(..); Ok(SyntheticHttpResponse::unexpected_error()) }
Rescue(error) == [result |-> Ok("unexpected_error"), warned |-> 1]

\* st: [result, warned, seen]: the result travelling outward, the warnings
\* logged, and what the endpoint metrics layer classified.
LayerResponse(layer, st) ==
    CASE layer = "respond" ->
            IF st.result.kind = "Err"
            THEN [st EXCEPT !.result = Rescue(st.result.error).result,
                            !.warned = st.warned + Rescue(st.result.error).warned]
            ELSE st
      [] layer = "http_endpoint_metrics" -> [st EXCEPT !.seen = st.result]
      [] OTHER -> st

RECURSIVE Unwind(_, _)
\* Applies the layers of RequestSegment from the innermost outward.
Unwind(i, st) ==
    IF i = 0 THEN st
    ELSE Unwind(i - 1, LayerResponse(RequestSegment[i], st))

NoReq == [kind |-> "NoReq"]
\* One request through the service built for an Http target: the handler
\* returns h and the HTTP server writes the response it is given, or drops
\* the connection when it is given an error.
Serve(h) ==
    LET out == Unwind(Len(RequestSegment) - 1,
                      [result |-> h, warned |-> 0, seen |-> NoReq])
    IN  [kind |-> "Req", path |-> RequestSegment, handler |-> h,
         seen |-> out.seen, warned |-> out.warned, result |-> out.result,
         sent |-> IF out.result.kind = "Ok" THEN <<out.result.rsp>> ELSE <<>>]

HandlerResults == {Ok("handler_response")} \cup {Err(e) : e \in HandlerErrors}

(***************************************************************************)
(* serve::serve(listen, admin, drain.signaled())                           *)
(***************************************************************************)
\* The latch handed to the serve loop in place of the drain signal.
ServeShutdownOnLatch == ready

\* The shutdown future handed to the serve loop.
ServeShutdown == drain

ConnInit ==
    [pc |-> "idle", silent |-> FALSE, waited |-> 0, tcp |-> NoTcp,
     http |-> Pending, result |-> NoResult, layers |-> <<>>,
     key |-> NoKey, endpoint |-> NoEndpoint]

\* A connection whose task has ended: its target and service are dropped.
Ended(pc) == [ConnInit EXCEPT !.pc = pc]

PipeInit ==
    /\ debug_assertions \in BOOLEAN
    /\ identity \in BOOLEAN
    /\ drain = FALSE
    /\ ready = FALSE
    /\ serve = "running"
    /\ conn = [c \in Conns |-> ConnInit]
    /\ req = NoReq

Globals == <<debug_assertions, identity, drain, ready, serve, labelVars, reportVars>>
Others == <<Globals, req>>

\* The accept loop takes the listener's next connection and spawns its task.
Accept(c) ==
    /\ serve = "running"
    /\ ~ServeShutdown
    /\ conn[c].pc = "idle"
    /\ \A d \in Conns : d < c => conn[d].pc # "idle"
    /\ \E s \in BOOLEAN : conn' = [conn EXCEPT ![c].pc = "tls", ![c].silent = s]
    /\ UNCHANGED Others

\* The serve future completes when its shutdown future does.
ServeStop ==
    /\ serve = "running"
    /\ ServeShutdown
    /\ serve' = "done"
    /\ UNCHANGED <<debug_assertions, identity, drain, ready, conn, req>>
    /\ UNCHANGED <<labelVars, reportVars>>

Drain ==
    /\ ~drain
    /\ drain' = TRUE
    /\ UNCHANGED <<debug_assertions, identity, ready, serve, conn, req>>
    /\ UNCHANGED <<labelVars, reportVars>>

ReleaseLatch ==
    /\ ~ready
    /\ ready' = TRUE
    /\ UNCHANGED <<debug_assertions, identity, drain, serve, conn, req>>
    /\ UNCHANGED <<labelVars, reportVars>>

\* TLS classification has produced tls: the target is mapped to a Tcp, the
\* transport metrics are keyed by it and HTTP detection starts.
Classified(c, tls, wait) ==
    conn' = [conn EXCEPT ![c].pc = "detect", ![c].waited = @ + wait,
                         ![c].tcp = MapTarget(tls, Addrs(c)),
                         ![c].key = TransportKey(MapTarget(tls, Addrs(c))),
                         ![c].layers = TlsSegment]

\* Without a local identity no detection is attempted.
TlsDisabled(c) ==
    /\ conn[c].pc = "tls"
    /\ ~identity
    /\ Classified(c, TlsNone, 0)
    /\ UNCHANGED Others

\* The client's first bytes decided the TLS state before the timeout.
TlsDetected(c) ==
    /\ conn[c].pc = "tls"
    /\ identity
    /\ ~conn[c].silent
    /\ \E tls \in TlsStates : Classified(c, tls, 0)
    /\ UNCHANGED Others

\* The timeout elapsed before a ClientHello arrived.
TlsTimedOut(c) ==
    /\ conn[c].pc = "tls"
    /\ identity
    /\ Classified(c, TlsNone, TlsTimeout)
    /\ UNCHANGED Others

\* HTTP detection completed with http; the request filter decides, and the
\* service built for an Http target labels its endpoint metrics by it.
Filtered(c, http, wait) ==
    LET result == RequestFilter(http, conn[c].tcp, debug_assertions)
    IN  conn' = [conn EXCEPT ![c].pc = FilterNext(result), ![c].waited = @ + wait,
                             ![c].http = http, ![c].result = result,
                             ![c].endpoint = IF result.kind = "Http"
                                             THEN HttpEndpointLabels(result)
                                             ELSE NoEndpoint,
                             ![c].layers = @ \o DetectSegment(result)]

HttpDetected(c) ==
    /\ conn[c].pc = "detect"
    /\ ~conn[c].silent
    /\ \E http \in DetectResults \ {TimedOut} : Filtered(c, http, 0)
    /\ UNCHANGED Others

HttpTimedOut(c) ==
    /\ conn[c].pc = "detect"
    /\ Filtered(c, TimedOut, HttpDetectTimeout)
    /\ UNCHANGED Others

\* The HTTP server serves one request of an admitted connection.
ServeRequest(c) ==
    /\ conn[c].pc = "serving"
    /\ \E h \in HandlerResults :
         /\ req' = Serve(h)
         /\ conn' = IF Serve(h).sent = <<>>
                    THEN [conn EXCEPT ![c] = Ended("aborted")]
                    ELSE conn
    /\ UNCHANGED Globals

Close(c) ==
    /\ conn[c].pc = "serving"
    /\ conn' = [conn EXCEPT ![c] = Ended("closed")]
    /\ UNCHANGED Others

\* The stack before any connection, in a release build with an identity.
PipeIdle == PipeInit /\ ~debug_assertions /\ identity

(***************************************************************************)
(* Labels: FmtLabels for EndpointLabels.  Formatted text is kept as the    *)
(* sequence of its pieces: a comma, or one key="value" pair.               *)
(***************************************************************************)
Comma == ","
\* write!(f, "{}=\"{}\"", k, v)
Pair(k, v) == k \o "=\"" \o v \o "\""

LabelKeys == {"k" \o ToString(i) : i \in 1..MaxLabels}
LabelValues == {"v"}
\* policy::Labels in iteration order: entries with distinct keys.
LabelMaps ==
    UNION {{m \in [1..n -> LabelKeys \X LabelValues] :
                \A i, j \in 1..n : i # j => m[i][1] # m[j][1]} : n \in 0..MaxLabels}

Authorities == {None, Some("authority")}

\* struct InboundEndpointLabels
InboundEndpointLabels ==
    [tls : TlsStates, authority : Authorities, target_addr : {ListenAddr},
     server : LabelMaps, authz : LabelMaps]

\* FmtLabels for Direction
DirectionFmt(direction) ==
    <<Pair("direction", IF direction = "In" THEN "inbound" ELSE "outbound")>>

\* FmtLabels for Authority
AuthorityFmt(a) == <<Pair("authority", a)>>

TargetAddrFmt(addr) == <<Pair("target_addr", addr)>>

TlsAcceptFmt(tls) ==
    CASE tls.kind = "None" ->
            <<Pair("tls", "no_identity"), Comma, Pair("no_tls_reason", "none")>>
      [] tls.kind = "Established" ->
            <<Pair("tls", "true"), Comma, Pair("client_id", "peer")>>
      [] tls.kind = "Passthru" ->
            <<Pair("tls", "opaque"), Comma, Pair("sni", tls.sni)>>

\* FmtLabels for a pair (A, B): both, joined by a comma.
TupleFmt(a, b) == a \o <<Comma>> \o b

RECURSIVE WriteEach(_, _)
\* for (k, v) in map.iter() { write!(f, ",<prefix>_{}=\"{}\"", k, v)?; }
WriteEach(prefix, map) ==
    IF map = <<>> THEN <<>>
    ELSE <<Comma, Pair(prefix \o "_" \o map[1][1], map[1][2])>>
         \o WriteEach(prefix, Tail(map))

\* The policy entries written with the comma after each pair.
PolicyFmtTrailingComma(server, authz) ==
    LET Trail(prefix, map) ==
            [i \in 1..(2 * Len(map)) |->
                IF i % 2 = 1 THEN Pair(prefix \o "_" \o map[(i + 1) \div 2][1],
                                       map[(i + 1) \div 2][2])
                ELSE Comma]
    IN  (IF Len(server) + Len(authz) > 0 THEN <<Comma>> ELSE <<>>)
        \o Trail("srv", server) \o Trail("saz", authz)

\* The two loops over policy.server and policy.authz.
PolicyFmt(server, authz) == WriteEach("srv", server) \o WriteEach("saz", authz)

\* FmtLabels for InboundEndpointLabels
InboundFmt(i) ==
    (IF i.authority # None
     THEN AuthorityFmt(i.authority.value) \o <<Comma>>
     ELSE <<>>)
    \o TupleFmt(TargetAddrFmt(i.target_addr), TlsAcceptFmt(i.tls))
    \o PolicyFmt(i.server, i.authz)

\* FmtLabels for EndpointLabels::Inbound
EndpointFmt(i) == TupleFmt(DirectionFmt("In"), InboundFmt(i))

\* prefix_labels: None for an empty iterator, else the pairs joined by commas.
PrefixLabels(prefix, map) ==
    IF map = <<>> THEN None
    ELSE Some(<<Pair(prefix \o "_" \o map[1][1], map[1][2])>>
              \o WriteEach(prefix, Tail(map)))

NoText == [kind |-> "NoText"]
NoLabels == [kind |-> "NoLabels"]

LabelIdle == labels = NoLabels /\ rendered = NoText

LabelInit == labels \in InboundEndpointLabels /\ rendered = NoText

\* The labels are formatted for the exposition.
FmtLabels ==
    /\ rendered = NoText
    /\ rendered' = [kind |-> "Text", out |-> EndpointFmt(labels),
                    srv |-> PrefixLabels("srv", labels.server),
                    saz |-> PrefixLabels("saz", labels.authz)]
    /\ UNCHANGED <<labels, pipeVars, reportVars>>

LabelNext == FmtLabels

(***************************************************************************)
(* Reports: FmtMetrics, and_then and the report of Metrics::new.           *)
(***************************************************************************)
\* The chain with the transport report ahead of the control report.
ReportChainTransportFirst ==
    << "inbound_errors", "outbound_errors", "endpoint", "route", "route_retry",
       "route_actual", "transport", "control", "opencensus", "stack",
       "process", "build_info" >>

\* The reports chained by Metrics::new, in chaining order.
ReportChain ==
    << "inbound_errors", "outbound_errors", "endpoint", "route", "route_retry",
       "route_actual", "control", "transport", "opencensus", "stack",
       "process", "build_info" >>

Categories == Range2(ReportChain)

\* A report of one category, and a.and_then(b).
Leaf(cat, n) == [kind |-> "Leaf", cat |-> cat, n |-> n]
AndThen(a, b) == [kind |-> "AndThen", a |-> a, b |-> b]

\* The lines a category's report writes, in its own order.
Block(cat, n) == [j \in 1..n |-> [cat |-> cat, line |-> j]]

RECURSIVE FmtMetrics(_)
\* fmt_metrics: a chained report writes its first report, then its second.
FmtMetrics(r) ==
    IF r.kind = "Leaf" THEN Block(r.cat, r.n)
    ELSE FmtMetrics(r.a) \o FmtMetrics(r.b)

RECURSIVE Chained(_, _)
\* chain[1].and_then(chain[2]) ... .and_then(chain[k]) over the current blocks.
Chained(chain, k) ==
    IF k = 1 THEN Leaf(chain[1], blocks[chain[1]])
    ELSE AndThen(Chained(chain, k - 1), Leaf(chain[k], blocks[chain[k]]))

\* The report Metrics::new returns.
Report == Chained(ReportChain, Len(ReportChain))



RECURSIVE Sum(_, _)
Sum(f, S) ==
    IF S = {} THEN 0
    ELSE LET x == CHOOSE x \in S : TRUE IN f[x] + Sum(f, S \ {x})

NoGroup == [kind |-> "NoGroup"]

ReportIdle ==
    /\ blocks = [cat \in Categories |-> 0]
    /\ text = NoText
    /\ abc = <<0, 0, 0>>
    /\ grouped = NoGroup

ReportInit ==
    /\ blocks = [cat \in Categories |-> 0]
    /\ text = NoText
    /\ abc \in {t \in (0..MaxLines) \X (0..MaxLines) \X (0..MaxLines) :
                    t[1] + t[2] + t[3] <= MaxLines}
    /\ grouped = NoGroup

\* A metric of category cat is recorded: its report grows by a line.
Record(cat) ==
    /\ Sum(blocks, Categories) < MaxLines
    /\ blocks' = [blocks EXCEPT ![cat] = @ + 1]
    /\ text' = NoText
    /\ UNCHANGED <<abc, grouped, pipeVars, labelVars>>

\* The admin server renders the process-wide report.
Scrape ==
    /\ text = NoText
    /\ text' = [kind |-> "Text", out |-> FmtMetrics(Report)]
    /\ UNCHANGED <<blocks, abc, grouped, pipeVars, labelVars>>

\* Three reports are merged under both groupings.
Merge ==
    /\ grouped = NoGroup
    /\ LET A == Leaf("A", abc[1])
           B == Leaf("B", abc[2])
           C == Leaf("C", abc[3])
       IN  grouped' = [kind |-> "Grouped",
                       left |-> FmtMetrics(AndThen(AndThen(A, B), C)),
                       right |-> FmtMetrics(AndThen(A, AndThen(B, C)))]
    /\ UNCHANGED <<blocks, text, abc, pipeVars, labelVars>>

ReportNext ==
    \/ \E cat \in Categories : Record(cat)
    \/ Scrape
    \/ Merge

\* The steps of the accept loop and of the connection tasks.
ConnNext ==
    \E c \in Conns :
        \/ Accept(c)
        \/ TlsDisabled(c)
        \/ TlsDetected(c)
        \/ TlsTimedOut(c)
        \/ HttpDetected(c)
        \/ HttpTimedOut(c)
        \/ ServeRequest(c)
        \/ Close(c)

\* The connection tasks together with the drain signal and the latch.
ServeNext ==
    \/ Drain
    \/ ReleaseLatch
    \/ ServeStop
    \/ ConnNext

vars == <<pipeVars, labelVars, reportVars>>

SpecInit == PipeInit /\ LabelIdle /\ ReportIdle
ServeInit == PipeInit /\ ~debug_assertions /\ LabelIdle /\ ReportIdle
LabelSpecInit == LabelInit /\ PipeIdle /\ ReportIdle
ReportSpecInit == ReportInit /\ PipeIdle /\ LabelIdle

\* Admission and serving of connections while the proxy runs.
Spec == SpecInit /\ [][ConnNext]_vars

\* The same with the drain signal and the readiness latch, for a release
\* build.
ServeSpec == ServeInit /\ [][ServeNext]_vars

\* Formatting of endpoint labels.
LabelSpec == LabelSpecInit /\ [][LabelNext]_vars

\* Recording and reporting of metrics.
ReportSpec == ReportSpecInit /\ [][ReportNext]_vars

(***************************************************************************)
(* Properties of the admission policy.                                     *)
(***************************************************************************)
Range(s) == {s[i] : i \in DOMAIN s}
Decided(c) == conn[c].result # NoResult
AdmissionErrors == {"NonHttpClient", "UnexpectedSni"}

C2_AmbiguousRefused ==
    \A c \in Conns :
        conn[c].http = Ambiguous =>
            /\ conn[c].result.kind # "Http"
            /\ conn[c].pc = "refused"
            /\ conn[c].result =
                   IF conn[c].tcp.tls.kind = "Passthru"
                   THEN UnexpectedSni(conn[c].tcp.tls.sni, Addrs(c).client)
                   ELSE NonHttpClient(Addrs(c).client)

C2_Witness ==
    \E c, d \in Conns :
        /\ c # d
        /\ conn[c].http = Ambiguous /\ conn[c].result = NonHttpClient(Addrs(c).client)
        /\ conn[d].http = Ambiguous /\ conn[d].result.kind = "UnexpectedSni"

PassthruTimeout(c) ==
    /\ conn[c].http = TimedOut
    /\ conn[c].tcp.tls.kind = "Passthru"

Rank(order, layer) == CHOOSE k \in 1..Len(order) : order[k] = layer

\* The layers of order occur in ran in that order, each one only after the
\* one before it in order has run.
RunsInOrder(order, ran) ==
    \A j \in 1..Len(ran) :
        ran[j] \in Range(order) =>
            LET k == Rank(order, ran[j])
            IN  /\ \A i \in 1..(j - 1) :
                      ran[i] \in Range(order) => Rank(order, ran[i]) < k
                /\ k > 1 => \E i \in 1..(j - 1) : ran[i] = order[k - 1]

\* The layers a connection has passed, with those of a request it serves.
Ran(c) ==
    conn[c].layers \o (IF conn[c].pc = "serving" /\ req # NoReq THEN req.path ELSE <<>>)

\* The order of section 4.4: (a) .. (h), metrics outside the error mapping.
ClaimedOrder ==
    << "detect_tls", "map_target", "transport_metrics", "detect_http",
       "request_filter", "http_endpoint_metrics", "respond", "admin" >>

\* The same with (g) the error mapping outside (f) the endpoint metrics.
ComposedOrder ==
    << "detect_tls", "map_target", "transport_metrics", "detect_http",
       "request_filter", "respond", "http_endpoint_metrics", "admin" >>

C5_HandlerErrorsMapped ==
    /\ \A c \in Conns : conn[c].pc # "aborted"
    /\ req # NoReq =>
          /\ req.result.kind = "Ok"
          /\ req.handler.kind = "Err" =>
                req.sent = <<"unexpected_error">> /\ req.warned = 1
          /\ req.handler.kind = "Ok" =>
                req.sent = <<req.handler.rsp>> /\ req.warned = 0

C5_Witness ==
    /\ req # NoReq
    /\ req.handler = Err("internal")
    /\ req.sent = <<"unexpected_error">>
    /\ \E c \in Conns : conn[c].pc = "serving"

InFlight(c) == conn[c].pc \in {"tls", "detect", "serving"}

\* A connection in flight can take its next step.
CanProceed(c) ==
    /\ conn[c].pc = "tls" => ENABLED (TlsTimedOut(c) \/ TlsDisabled(c))
    /\ conn[c].pc = "detect" => ENABLED HttpTimedOut(c)
    /\ conn[c].pc = "serving" => ENABLED ServeRequest(c) /\ ENABLED Close(c)

Refused(c) == conn[c].result.kind \in AdmissionErrors

\* C8: an admission error is terminal for its connection: once the policy
\* has returned NonHttpClient or UnexpectedSni the connection is never
\* classified Http, passes no layer inside the filter, is never detected
\* again, and the step that refuses it leaves every other connection as it
\* was.
C8_AdmissionErrorTerminal ==
    /\ [](\A c \in Conns :
            Refused(c) =>
                /\ conn[c].pc = "refused"
                /\ conn[c].layers[Len(conn[c].layers)] = "request_filter"
                /\ ~ENABLED (ServeRequest(c) \/ HttpDetected(c) \/ HttpTimedOut(c)
                             \/ TlsDetected(c) \/ TlsTimedOut(c) \/ TlsDisabled(c)))
    /\ [][\A c \in Conns : Refused(c) => conn'[c] = conn[c]]_vars
    /\ [][\A c \in Conns :
            (~Refused(c) /\ Refused(c)') =>
                \A d \in Conns \ {c} : conn'[d] = conn[d]]_vars

C8_Witness ==
    \E c, d \in Conns :
        /\ conn[c].result.kind = "NonHttpClient"
        /\ conn[d].pc = "serving"
        /\ c < d
        /\ req # NoReq

(***************************************************************************)
(* Properties of reports and labels.                                       *)
(***************************************************************************)
\* The order of the categories in the exposition, as documented.
DocumentedOrder ==
    << "inbound_errors", "outbound_errors", "endpoint", "route", "route_retry",
       "route_actual", "control", "transport", "opencensus", "stack",
       "process", "build_info" >>

\* out holds exactly the lines held per category, each once, the lines of a
\* category adjacent and in their own order, the categories in order.
Concatenates(out, order, held) ==
    /\ Len(out) = Sum(held, Range(order))
    /\ \A cat \in Range(order) : \A n \in 1..held[cat] :
          \E i \in 1..Len(out) : out[i] = [cat |-> cat, line |-> n]
    /\ \A i, j \in 1..Len(out) :
          i < j =>
             \/ Rank(order, out[i].cat) < Rank(order, out[j].cat)
             \/ out[i].cat = out[j].cat /\ out[i].line < out[j].line

\* C9: merging is associative and keeps order: ((A,B),C) and (A,(B,C))
\* write the same text, the lines of A, then B, then C, each block in its
\* own order; and the report of Metrics::new writes the categories in the
\* order inbound errors, outbound errors, endpoint, route, route retry,
\* route actual, control, transport, opencensus, stack, process, build info.
C9_MergeAssociativeInOrder ==
    /\ grouped # NoGroup =>
          /\ grouped.left = grouped.right
          /\ Concatenates(grouped.left, <<"A", "B", "C">>,
                          [cat \in {"A", "B", "C"} |->
                              abc[Rank(<<"A", "B", "C">>, cat)]])
    /\ text # NoText => Concatenates(text.out, DocumentedOrder, blocks)

C9_Witness ==
    /\ grouped # NoGroup
    /\ abc[1] > 0 /\ abc[2] > 0 /\ abc[3] > 0
    /\ text # NoText
    /\ blocks["transport"] = 2
    /\ blocks["control"] = 1
    /\ Len(text.out) = 3

IsPair(t) == t # Comma

\* The pairs of out, without the commas between them.
PairsOf(out) == [i \in 1..((Len(out) + 1) \div 2) |-> out[2 * i - 1]]

\* Pairs at the odd places and single commas between them: no leading,
\* doubled or trailing comma.
CommaJoined(out) ==
    /\ Len(out) % 2 = 1
    /\ \A i \in 1..Len(out) : IsPair(out[i]) <=> i % 2 = 1

PolicyPairs(prefix, map) ==
    [i \in 1..Len(map) |-> prefix \o "_" \o map[i][1] \o "=\"" \o map[i][2] \o "\""]

\* Every srv_ or saz_ pair there can be.
PolicyTexts ==
    {prefix \o "_" \o k \o "=\"" \o v \o "\"" :
        prefix \in {"srv", "saz"}, k \in LabelKeys, v \in LabelValues}

\* C10: an inbound EndpointLabels value is written as comma-joined pairs:
\* direction="inbound", the authority if there is one, target_addr, the TLS
\* labels, then one srv_ pair per server entry and one saz_ pair per authz
\* entry, in iteration order; with both maps empty no srv_ or saz_ pair is
\* written.  prefix_labels writes the same pairs, or nothing for no entries.
C10_InboundLabelsWellFormed ==
    rendered # NoText =>
        /\ CommaJoined(rendered.out)
        /\ PairsOf(rendered.out) =
              <<"direction=\"inbound\"">>
              \o (IF labels.authority = None THEN <<>>
                  ELSE <<"authority=\"" \o labels.authority.value \o "\"">>)
              \o <<"target_addr=\"" \o labels.target_addr \o "\"">>
              \o PairsOf(TlsAcceptFmt(labels.tls))
              \o PolicyPairs("srv", labels.server)
              \o PolicyPairs("saz", labels.authz)
        /\ (labels.server = <<>> /\ labels.authz = <<>>) =>
              /\ Range(rendered.out) \cap PolicyTexts = {}
              /\ Len(rendered.out) =
                    2 * ((IF labels.authority = None THEN 2 ELSE 3)
                         + Len(PairsOf(TlsAcceptFmt(labels.tls)))) - 1
        /\ \A m \in {<<"srv", labels.server, rendered.srv>>,
                     <<"saz", labels.authz, rendered.saz>>} :
              IF m[2] = <<>> THEN m[3] = None
              ELSE /\ m[3].kind = "Some"
                   /\ CommaJoined(m[3].value)
                   /\ PairsOf(m[3].value) = PolicyPairs(m[1], m[2])

C10_Witness ==
    /\ rendered # NoText
    /\ labels.authority # None
    /\ Len(labels.server) = 2
    /\ Len(labels.authz) = 1
    /\ Len(rendered.out) = 2 * 8 - 1


(***************************************************************************)
(* Properties of the targets carried through one connection.               *)
(***************************************************************************)
\* A connection whose task still holds its targets.
Alive(c) == conn[c].pc \in {"detect", "serving", "refused", "panicked"}

\* The Http target of c carries the Tcp built right after TLS
\* classification, with the version detection reported or the filter guessed.
KeepsTarget(c) ==
    LET r == conn[c].result
        tcp == conn[c].tcp
    IN  /\ conn[c].http.kind \in {"Some", "Timeout"}
        /\ conn[c].http.kind = "Some" => r.version = conn[c].http.version
        /\ r.tcp = tcp
        /\ tcp.client = Addrs(c).client
        /\ tcp.addr = Addrs(c).local

\* One TLS state keys the transport metrics, decides the fallback and labels
\* the HTTP endpoint metrics of c.
OneTlsState(c) ==
    LET tls == conn[c].key.tls
    IN  /\ tls \in TlsStates
        /\ conn[c].tcp.tls = tls
        /\ conn[c].endpoint.tls = tls
        /\ conn[c].endpoint.target_addr = conn[c].key.target_addr
        /\ conn[c].http.kind = "Timeout" =>
              /\ tls.kind # "Passthru"
              /\ conn[c].result.version = (IF tls = TlsNone THEN "Http1" ELSE "H2")

\* HTTP detection, the filter and the requests served leave the Tcp and the
\* key of a living connection as they were built.
TcpUnaltered ==
    \A c \in Conns :
        (Alive(c) /\ Alive(c)') =>
            /\ conn[c].tcp' = conn[c].tcp
            /\ conn[c].key' = conn[c].key

\* C11: whenever the policy classifies a connection Http (a detected version
\* under any TLS state, or a timeout fallback), the Http value keeps the
\* detected version and embeds the Tcp exactly as it was built right after
\* TLS classification; neither HTTP detection nor the policy alters its TLS
\* state, client address or local address, so the TLS state of the
\* transport-metrics key, of the fallback decision and of the HTTP endpoint
\* labels of one connection is one and the same value.
C11_HttpEmbedsTcpUnchanged ==
    /\ [](\A c \in Conns :
             conn[c].result.kind = "Http" => KeepsTarget(c) /\ OneTlsState(c))
    /\ [][TcpUnaltered]_vars

\* Two connections admitted as Http: one with a detected version over a
\* Passthru TLS state, one by the timeout fallback over Established.
C11_Witness ==
    \E c, d \in Conns :
        /\ conn[c].pc = "serving" /\ conn[d].pc = "serving"
        /\ conn[c].http \in {Detected(v) : v \in Versions}
        /\ conn[c].key.tls \in {TlsPassthru(s) : s \in Snis}
        /\ conn[c].endpoint.tls = conn[c].key.tls
        /\ conn[d].http = TimedOut
        /\ conn[d].result = Http("H2", MapTarget(TlsEstablished, Addrs(d)))
        /\ conn[d].endpoint = HttpEndpointLabels(conn[d].result)
====
